---------------------------- MODULE Spec2Model ----------------------------
(***************************************************************************)
(* Docs OS: the ingestion pipeline (scripts/generate-project-docs.mjs) and *)
(* the Drive auto-sync watcher (scripts/drive-sync.mjs).                   *)
(*                                                                         *)
(* JavaScript strings are modelled as sequences of one-character strings,  *)
(* so that toLowerCase, includes, split and the regular-expression         *)
(* replacements are computed character by character as the code does.     *)
(***************************************************************************)
EXTENDS Integers, Sequences, FiniteSets, TLC

(***************************************************************************)
(* String primitives                                                       *)
(***************************************************************************)
UpperChars ==
  <<"A","B","C","D","E","F","G","H","I","J","K","L","M",
    "N","O","P","Q","R","S","T","U","V","W","X","Y","Z">>

LowerChars ==
  <<"a","b","c","d","e","f","g","h","i","j","k","l","m",
    "n","o","p","q","r","s","t","u","v","w","x","y","z">>

DigitChars == <<"0","1","2","3","4","5","6","7","8","9">>

Range(s) == {s[i] : i \in DOMAIN s}

IndexIn(c, s) == CHOOSE i \in DOMAIN s : s[i] = c

\* the printable characters (but the grave accent) in ascending order of
\* their code unit
Ascii ==
  <<" ","!","\"","#","$","%","&","'","(",")","*","+",",","-",".","/",
    "0","1","2","3","4","5","6","7","8","9",":",";","<","=",">","?",
    "@","A","B","C","D","E","F","G","H","I","J","K","L","M","N","O",
    "P","Q","R","S","T","U","V","W","X","Y","Z","[","\\","]","^","_",
    "a","b","c","d","e","f","g","h","i","j","k","l","m","n","o",
    "p","q","r","s","t","u","v","w","x","y","z","{","|","}","~">>

\* a < b for two names compared code unit by code unit (a proper prefix first)
NameBefore(a, b) ==
  \/ /\ Len(a) < Len(b)
     /\ \A i \in DOMAIN a : a[i] = b[i]
  \/ \E i \in (DOMAIN a) \cap (DOMAIN b) :
       /\ \A j \in 1..(i - 1) : a[j] = b[j]
       /\ IndexIn(a[i], Ascii) < IndexIn(b[i], Ascii)

\* String.prototype.toLowerCase, one character
LowerChar(c) ==
  IF c \in Range(UpperChars) THEN LowerChars[IndexIn(c, UpperChars)] ELSE c

\* String.prototype.toUpperCase, one character
UpperChar(c) ==
  IF c \in Range(LowerChars) THEN UpperChars[IndexIn(c, LowerChars)] ELSE c

toLowerCase(s) == [i \in DOMAIN s |-> LowerChar(s[i])]

\* s.slice(i - 1) in 1-based terms: the characters from position i on
SliceFrom(s, i) == IF i > Len(s) THEN <<>> ELSE SubSeq(s, i, Len(s))

\* whether sub occurs in s at position i
OccursAt(s, sub, i) ==
  /\ i >= 1
  /\ i + Len(sub) - 1 <= Len(s)
  /\ SubSeq(s, i, i + Len(sub) - 1) = sub

\* String.prototype.includes
includes(s, sub) == \E i \in 1..(Len(s) + 1) : OccursAt(s, sub, i)

\* String.prototype.indexOf in 1-based terms, 0 when sub does not occur
indexOf(s, sub) ==
  IF includes(s, sub)
  THEN CHOOSE i \in 1..(Len(s) + 1) :
         /\ OccursAt(s, sub, i)
         /\ \A j \in 1..(i - 1) : ~OccursAt(s, sub, j)
  ELSE 0

\* String.prototype.split with a non-empty separator: the sequence of pieces
RECURSIVE split(_, _)
split(s, sep) ==
  LET i == indexOf(s, sep)
  IN IF i = 0
     THEN <<s>>
     ELSE <<SubSeq(s, 1, i - 1)>> \o split(SliceFrom(s, i + Len(sep)), sep)

\* Array.prototype.join
RECURSIVE join(_, _)
join(parts, sep) ==
  IF Len(parts) = 0 THEN <<>>
  ELSE IF Len(parts) = 1 THEN parts[1]
  ELSE parts[1] \o sep \o join(Tail(parts), sep)

\* String.prototype.lastIndexOf for one character, 0 when absent
LastIndexOfChar(s, c) ==
  IF c \in Range(s)
  THEN CHOOSE i \in DOMAIN s : s[i] = c /\ \A j \in (i + 1)..Len(s) : s[j] # c
  ELSE 0

IsLowerAlnum(c) == c \in Range(LowerChars) \/ c \in Range(DigitChars)

(***************************************************************************)
(* Command-line derivations of the generator                               *)
(***************************************************************************)
S_folders == <<"f","o","l","d","e","r","s","/">>

\* const DRIVE_ID = args.drive.includes('folders/') ? ... : args.drive
DRIVE_ID(drive) ==
  IF includes(drive, S_folders)
  THEN split(split(drive, S_folders)[2], <<"?">>)[1]
  ELSE drive

\* const SLUG = args.slug.toLowerCase().replace(/[^a-z0-9-]/g, '-')
SLUG(slug) ==
  [i \in DOMAIN slug |->
     LET c == LowerChar(slug[i]) IN IF IsLowerAlnum(c) \/ c = "-" THEN c ELSE "-"]

\* w.charAt(0).toUpperCase() + w.slice(1)
Capitalize(w) == IF Len(w) = 0 THEN <<>> ELSE <<UpperChar(w[1])>> \o Tail(w)

\* SLUG.split('-').map(capitalize).join(' ')
DisplayName(slug) ==
  LET ws == split(slug, <<"-">>)
  IN join([i \in DOMAIN ws |-> Capitalize(ws[i])], <<" ">>)

(***************************************************************************)
(* Step 3: classifyFiles                                                   *)
(***************************************************************************)
E_md == <<".","m","d">>
E_mdx == <<".","m","d","x">>
E_txt == <<".","t","x","t">>
E_docx == <<".","d","o","c","x">>
E_doc == <<".","d","o","c">>
E_xlsx == <<".","x","l","s","x">>
E_xls == <<".","x","l","s">>
E_csv == <<".","c","s","v">>
E_pptx == <<".","p","p","t","x">>
E_ppt == <<".","p","p","t">>
E_pdf == <<".","p","d","f">>
E_png == <<".","p","n","g">>
E_jpg == <<".","j","p","g">>
E_jpeg == <<".","j","p","e","g">>
E_svg == <<".","s","v","g">>
E_gif == <<".","g","i","f">>

K_exec == <<"e","x","e","c">>
K_summary == <<"s","u","m","m","a","r","y">>
K_financial == <<"f","i","n","a","n","c","i","a","l">>
K_revenue == <<"r","e","v","e","n","u","e">>
K_team == <<"t","e","a","m">>
K_org == <<"o","r","g">>
K_product == <<"p","r","o","d","u","c","t">>
K_roadmap == <<"r","o","a","d","m","a","p">>
K_market == <<"m","a","r","k","e","t">>
K_competitor == <<"c","o","m","p","e","t","i","t","o","r">>
K_legal == <<"l","e","g","a","l">>
K_term == <<"t","e","r","m">>
K_deck == <<"d","e","c","k">>
K_pitch == <<"p","i","t","c","h">>

\* path.extname(file) for a directory entry (no '/' in it): the text from the
\* last '.', or '' when there is none, when it is the first character, or for '..'
extname(file) ==
  LET d == LastIndexOfChar(file, ".")
  IN IF d = 0 \/ d = 1 \/ file = <<".", ".">> THEN <<>> ELSE SliceFrom(file, d)

\* the chain of extension tests, on path.extname(file).toLowerCase()
TypeOf(ext) ==
  IF ext \in {E_md, E_mdx, E_txt} THEN "markdown"
  ELSE IF ext \in {E_docx, E_doc} THEN "document"
  ELSE IF ext \in {E_xlsx, E_xls, E_csv} THEN "spreadsheet"
  ELSE IF ext \in {E_pptx, E_ppt} THEN "presentation"
  ELSE IF ext = E_pdf THEN "pdf"
  ELSE IF ext \in {E_png, E_jpg, E_jpeg, E_svg, E_gif} THEN "image"
  ELSE "unknown"

\* the category chain with its first two tests exchanged
CategoryOf_financialsFirst(nameLower) ==
  IF includes(nameLower, K_financial) \/ includes(nameLower, K_revenue) THEN "financials"
  ELSE IF includes(nameLower, K_exec) \/ includes(nameLower, K_summary) THEN "overview"
  ELSE IF includes(nameLower, K_team) \/ includes(nameLower, K_org) THEN "team"
  ELSE IF includes(nameLower, K_product) \/ includes(nameLower, K_roadmap) THEN "product"
  ELSE IF includes(nameLower, K_market) \/ includes(nameLower, K_competitor) THEN "market"
  ELSE IF includes(nameLower, K_legal) \/ includes(nameLower, K_term) THEN "legal"
  ELSE IF includes(nameLower, K_deck) \/ includes(nameLower, K_pitch) THEN "pitch"
  ELSE "appendix"

\* the if / else-if chain over nameLower = file.toLowerCase()
CategoryOf(nameLower) ==
  IF includes(nameLower, K_exec) \/ includes(nameLower, K_summary) THEN "overview"
  ELSE IF includes(nameLower, K_financial) \/ includes(nameLower, K_revenue) THEN "financials"
  ELSE IF includes(nameLower, K_team) \/ includes(nameLower, K_org) THEN "team"
  ELSE IF includes(nameLower, K_product) \/ includes(nameLower, K_roadmap) THEN "product"
  ELSE IF includes(nameLower, K_market) \/ includes(nameLower, K_competitor) THEN "market"
  ELSE IF includes(nameLower, K_legal) \/ includes(nameLower, K_term) THEN "legal"
  ELSE IF includes(nameLower, K_deck) \/ includes(nameLower, K_pitch) THEN "pitch"
  ELSE "appendix"

\* the body of files.map(file => ...): one Source File Record
ClassifyFile(file) ==
  LET ext == toLowerCase(extname(file))
  IN [file |-> file, ext |-> ext, type |-> TypeOf(ext),
      category |-> CategoryOf(toLowerCase(file))]

\* files.map(...) over the directory listing, order preserved
ClassifyListing(files) == [i \in DOMAIN files |-> ClassifyFile(files[i])]

(***************************************************************************)
(* Step 4 and 5 helpers                                                    *)
(***************************************************************************)
\* [...new Set(xs)] without the Set: duplicates kept
Dedup_keepAll(xs) == xs

\* [...new Set(xs)]: the distinct elements in first-seen order
RECURSIVE Dedup(_)
Dedup(xs) ==
  IF Len(xs) = 0 THEN <<>>
  ELSE LET init == Dedup(SubSeq(xs, 1, Len(xs) - 1))
           last == xs[Len(xs)]
       IN IF last \in Range(init) THEN init ELSE Append(init, last)

\* Array.prototype.filter
RECURSIVE SelectNav(_)
SelectNav(cs) ==
  IF Len(cs) = 0 THEN <<>>
  ELSE IF cs[1].type = "markdown" \/ cs[1].type = "document"
       THEN <<cs[1]>> \o SelectNav(Tail(cs))
       ELSE SelectNav(Tail(cs))

\* f.file.replace(/\.[^/.]+$/, ''): drop a final '.' followed by one or more
\* characters other than '/' and '.'
StripExtension(file) ==
  LET d == LastIndexOfChar(file, ".")
  IN IF d = 0 \/ d = Len(file) \/ "/" \in Range(SliceFrom(file, d + 1))
     THEN file
     ELSE SubSeq(file, 1, d - 1)

\* s.replace(/[^a-z0-9]+/g, '-'): every maximal run of other characters
\* becomes one '-'
RECURSIVE HyphenateRuns(_)
HyphenateRuns(s) ==
  IF Len(s) = 0 THEN <<>>
  ELSE IF IsLowerAlnum(s[1]) THEN <<s[1]>> \o HyphenateRuns(Tail(s))
  ELSE IF Len(s) >= 2 /\ ~IsLowerAlnum(s[2]) THEN HyphenateRuns(Tail(s))
  ELSE <<"-">> \o HyphenateRuns(Tail(s))

\* the page slug of a navigation entry
NavSlug(file) == HyphenateRuns(toLowerCase(StripExtension(file)))

\* the rows of the index table: | file | category | type |
IndexRows(classified) ==
  [i \in DOMAIN classified |->
     <<classified[i].file, classified[i].category, classified[i].type>>]

S_projects == <<"/","p","r","o","j","e","c","t","s","/">>
S_assets == <<"/","a","s","s","e","t","s","/">>

\* /projects/${SLUG}/assets/${f.file}
DownloadLink(slug, file) == S_projects \o slug \o S_assets \o file

\* the rows of the appendix table: | file | type | category | [Download](link) |
AppendixRows(slug, classified) ==
  [i \in DOMAIN classified |->
     <<classified[i].file, classified[i].type, classified[i].category,
       DownloadLink(slug, classified[i].file)>>]

S_index == <<"i","n","d","e","x">>
S_appendix == <<"a","p","p","e","n","d","i","x">>
S_Overview == <<"O","v","e","r","v","i","e","w">>
S_Downloads == <<"D","o","w","n","l","o","a","d","s"," ","&"," ","A","p","p","e","n","d","i","x">>

\* the entries of the object literal of _meta.ts, as written, in order
NavEntries(classified) ==
  LET nav == SelectNav(classified)
  IN <<<<S_index, S_Overview>>>>
     \o [i \in DOMAIN nav |-> <<NavSlug(nav[i].file), StripExtension(nav[i].file)>>]
     \o <<<<S_appendix, S_Downloads>>>>

(***************************************************************************)
(* The command line: the shell's word splitting and the argument parser    *)
(***************************************************************************)
\* the JavaScript value undefined (no character sequence equals it)
Undefined == <<"undefined">>

S_undefined == <<"u","n","d","e","f","i","n","e","d">>
S_drive == <<"d","r","i","v","e">>
S_slug == <<"s","l","u","g">>
S_visibility == <<"v","i","s","i","b","i","l","i","t","y">>
S_investor == <<"i","n","v","e","s","t","o","r">>
S_active == <<"a","c","t","i","v","e">>
S_version == <<"1",".","0">>

\* `${value}` inside a template literal
Interpolate(v) == IF v = Undefined THEN S_undefined ELSE v

\* !value for a string or undefined
Falsy(v) == v = Undefined \/ v = <<>>

\* /bin/sh -c: blanks outside double quotes separate words, a double quote
\* opens or closes a quoted stretch and is removed; an unclosed quote is a
\* syntax error.  (The characters $, ` and \ are not in the model's alphabet.)
QuotesBefore(cmd, i) == Cardinality({j \in 1..(i - 1) : cmd[j] = "\""})

WordBreaks(cmd) ==
  {0, Len(cmd) + 1}
    \cup {i \in DOMAIN cmd : cmd[i] = " " /\ QuotesBefore(cmd, i) % 2 = 0}

\* the elements of a finite set of integers in increasing order
RECURSIVE Ascending(_)
Ascending(S) ==
  IF S = {} THEN <<>>
  ELSE LET m == CHOOSE x \in S : \A y \in S : x <= y
       IN <<m>> \o Ascending(S \ {m})

NotQuote(c) == c # "\""

ShellWords(cmd) ==
  LET bs == Ascending(WordBreaks(cmd))
      starts == {k \in 1..(Len(bs) - 1) : bs[k] + 1 <= bs[k + 1] - 1}
      ks == Ascending(starts)
  IN [ok |-> QuotesBefore(cmd, Len(cmd) + 1) % 2 = 0,
      words |-> [n \in DOMAIN ks |->
                   SelectSeq(SubSeq(cmd, bs[ks[n]] + 1, bs[ks[n] + 1] - 1), NotQuote)]]

\* arg.replace('--', ''): the first occurrence of '--' is removed
RemoveFirstDashes(arg) ==
  LET i == indexOf(arg, <<"-", "-">>)
  IN IF i = 0 THEN arg ELSE SubSeq(arg, 1, i - 1) \o SliceFrom(arg, i + 2)

\* const [key, ...val] = arg.replace('--', '').split('='); [key, val.join('=')]
ArgEntry(arg) ==
  LET parts == split(RemoveFirstDashes(arg), <<"=">>)
  IN <<parts[1], join(Tail(parts), <<"=">>)>>

\* Object.fromEntries(entries)[key]: the last entry with that key wins
ArgValue(argv, key) ==
  LET hits == {i \in DOMAIN argv : ArgEntry(argv[i])[1] = key}
  IN IF hits = {} THEN Undefined
     ELSE ArgEntry(argv[CHOOSE i \in hits : \A j \in hits : j <= i])[2]

\* const VISIBILITY = args.visibility || 'investor'
VISIBILITY(v) == IF Falsy(v) THEN S_investor ELSE v

S_nodeScript == <<"n","o","d","e"," ","s","c","r","i","p","t","s","/","g","e","n","e","r","a","t","e","-","p","r","o","j","e","c","t","-","d","o","c","s",".","m","j","s">>
S_optDrive == <<"-","-","d","r","i","v","e","=">>
S_optSlug == <<"-","-","s","l","u","g","=">>
S_optVisibility == <<"-","-","v","i","s","i","b","i","l","i","t","y","=">>

\* `node scripts/generate-project-docs.mjs --drive="..." --slug="..." --visibility="..."`
SyncCommand(project) ==
  S_nodeScript
    \o <<" ">> \o S_optDrive \o <<"\"">> \o Interpolate(project.driveFolder) \o <<"\"">>
    \o <<" ">> \o S_optSlug \o <<"\"">> \o Interpolate(project.slug) \o <<"\"">>
    \o <<" ">> \o S_optVisibility \o <<"\"">> \o Interpolate(project.visibility) \o <<"\"">>

\* process.argv.slice(2) of the process the shell starts for the command
ArgvOf(words) == SubSeq(words, 3, Len(words))

(***************************************************************************)
(* State                                                                   *)
(***************************************************************************)
VARIABLES
  now,           \* the wall clock, in ticks of 1/SubMs millisecond
  kernelClock,   \* the least mtime the kernel's coarse clock can still give
  metaJson,      \* content/projects/<dir>/metadata.json, by <dir>
  manifestJson,  \* content/projects/<dir>/drive-manifest.json, by <dir>
  raw,           \* content/projects/<dir>/raw: its listing of [name, mtime], by <dir>
  indexMdx,      \* apps/docs-platform/src/content/projects/<dir>/index.mdx
  metaTs,        \* .../<dir>/_meta.ts
  appendixMdx,   \* .../<dir>/appendix.mdx
  changelogMdx,  \* .../<dir>/changelog.mdx
  gen,           \* the generator process (generate-project-docs.mjs)
  cycle,         \* the watcher: the frame of runSyncCycle on the call stack, and
                 \* the cycle counters
  tasks,         \* the watcher: the suspended frames of runSyncCycle, as queued
  timer,         \* the watcher: the setInterval timer
  obs,           \* what an observer of the console and the disk has recorded
  input,         \* the argument of the pure functions under test
  output         \* their results

fsVars == <<metaJson, manifestJson, raw, indexMdx, metaTs, appendixMdx, changelogMdx>>
vars == <<now, kernelClock, metaJson, manifestJson, raw, indexMdx, metaTs, appendixMdx,
          changelogMdx, gen, cycle, tasks, timer, obs, input, output>>

\* ticks per millisecond: stat.mtimeMs carries fractions of a millisecond,
\* new Date() only whole milliseconds
SubMs == 3
\* no timestamp is taken after MaxClock
MaxClock == 3
\* milliseconds per calendar day (toISOString().split('T')[0])
MsPerDay == 86400000

\* fs.writeFileSync(path, value): create or replace
Put(f, k, v) == [x \in (DOMAIN f) \cup {k} |-> IF x = k THEN v ELSE f[x]]

Get(f, k, default) == IF k \in DOMAIN f THEN f[k] ELSE default

\* new Date().toISOString(): the instant cut to whole milliseconds and
\* written as a calendar day (YYYY-MM-DD) and a time of day (THH:mm:ss.sssZ)
ToISOString(t) ==
  [day |-> (t \div SubMs) \div MsPerDay, time |-> (t \div SubMs) % MsPerDay]

\* new Date(iso).getTime(): the milliseconds the timestamp denotes
GetTime(iso) == iso.day * MsPerDay + iso.time

\* new Date().toISOString().split('T')[0]: the calendar day
DateOf(t) == ToISOString(t).day

\* a comparison of stat.mtimeMs (ticks / SubMs) with a millisecond count
MtimeAfter(mtime, ms) == mtime > ms * SubMs

Names(listing) == [i \in DOMAIN listing |-> listing[i].name]

(***************************************************************************)
(* The generator process                                                   *)
(***************************************************************************)
NoMetadata == [fileCount |-> 0]

GenNone ==
  [pc |-> "none", SLUG |-> <<>>, DRIVE_ID |-> <<>>, VISIBILITY |-> <<>>,
   classified |-> <<>>, metadata |-> NoMetadata]

GenRunning ==
  {"setup", "scan", "classify", "metadata", "pages", "pagesNav", "pagesAppendix",
   "changelog"}

\* lines 18-37: parse the arguments, exit(1) on a missing --drive or --slug,
\* otherwise derive the constants of the run
Launch(argv) ==
  LET drive == ArgValue(argv, S_drive)
      slug == ArgValue(argv, S_slug)
  IN IF Falsy(drive) \/ Falsy(slug)
     THEN [GenNone EXCEPT !.pc = "failed"]
     ELSE [GenNone EXCEPT !.pc = "setup",
                          !.SLUG = SLUG(slug),
                          !.DRIVE_ID = DRIVE_ID(drive),
                          !.VISIBILITY = VISIBILITY(ArgValue(argv, S_visibility))]

\* generateMetadata with the recorded updatedAt left as it was
BuildMetadata_keepUpdatedAt(g, created, updated, old) ==
  [slug |-> g.SLUG,
   name |-> DisplayName(g.SLUG),
   visibility |-> g.VISIBILITY,
   status |-> S_active,
   tags |-> <<>>,
   createdAt |-> created,
   updatedAt |-> IF old = NoMetadata THEN updated ELSE old.updatedAt,
   version |-> S_version,
   fileCount |-> Len(g.classified),
   categories |-> Dedup([i \in DOMAIN g.classified |-> g.classified[i].category]),
   driveFolder |-> g.DRIVE_ID]

\* the metadata object of generateMetadata; created and updated are its two
\* readings of the clock (old: the record it replaces)
BuildMetadata(g, created, updated, old) ==
  [slug |-> g.SLUG,
   name |-> DisplayName(g.SLUG),
   visibility |-> g.VISIBILITY,
   status |-> S_active,
   tags |-> <<>>,
   createdAt |-> created,
   updatedAt |-> updated,
   version |-> S_version,
   fileCount |-> Len(g.classified),
   categories |-> Dedup([i \in DOMAIN g.classified |-> g.classified[i].category]),
   driveFolder |-> g.DRIVE_ID]

\* an index page whose table is appended to the table already on disk
BuildIndex_append(g, t) ==
  [name |-> g.metadata.name, status |-> g.metadata.status,
   visibility |-> g.metadata.visibility, fileCount |-> g.metadata.fileCount,
   version |-> g.metadata.version,
   rows |-> Get(indexMdx, g.SLUG, [rows |-> <<>>]).rows \o IndexRows(g.classified),
   date |-> DateOf(t), source |-> g.DRIVE_ID]

\* the index page
BuildIndex(g, t) ==
  [name |-> g.metadata.name, status |-> g.metadata.status,
   visibility |-> g.metadata.visibility, fileCount |-> g.metadata.fileCount,
   version |-> g.metadata.version, rows |-> IndexRows(g.classified),
   date |-> DateOf(t), source |-> g.DRIVE_ID]

\* the appendix page
BuildAppendix(g, t) ==
  [name |-> g.metadata.name, rows |-> AppendixRows(g.SLUG, g.classified),
   date |-> DateOf(t)]

\* the changelog page
BuildChangelog(g, t) ==
  [name |-> g.metadata.name, version |-> g.metadata.version, date |-> DateOf(t),
   fileCount |-> g.metadata.fileCount, categories |-> g.metadata.categories]

\* classifyFiles: [] when the raw directory does not exist
ClassifyRaw(slug) ==
  IF slug \in DOMAIN raw THEN ClassifyListing(Names(raw[slug])) ELSE <<>>

\* Step 1: setupDirectories (mkdir -p of raw, mdx, assets and the site directory)
SetupDirectories ==
  /\ gen.pc = "setup"
  /\ raw' = IF gen.SLUG \in DOMAIN raw THEN raw ELSE Put(raw, gen.SLUG, <<>>)
  /\ gen' = [gen EXCEPT !.pc = "scan"]
  /\ UNCHANGED <<kernelClock, tasks, now, metaJson, manifestJson, indexMdx, metaTs, appendixMdx,
                 changelogMdx, cycle, timer, obs, input, output>>

\* Step 2: scanDriveFolder writes the placeholder manifest
ScanDriveFolder ==
  /\ gen.pc = "scan"
  /\ manifestJson' = Put(manifestJson, gen.SLUG,
                         [folderId |-> gen.DRIVE_ID, scannedAt |-> ToISOString(now),
                          files |-> <<>>])
  /\ gen' = [gen EXCEPT !.pc = "classify"]
  /\ UNCHANGED <<kernelClock, tasks, now, metaJson, raw, indexMdx, metaTs, appendixMdx,
                 changelogMdx, cycle, timer, obs, input, output>>

\* Step 3: classifyFiles
ClassifyFiles ==
  /\ gen.pc = "classify"
  /\ gen' = [gen EXCEPT !.pc = "metadata", !.classified = ClassifyRaw(gen.SLUG)]
  /\ obs' = [obs EXCEPT
               !.ranOver = Put(@, gen.SLUG, Names(Get(raw, gen.SLUG, <<>>))),
               !.ranBefore = IF gen.SLUG \in DOMAIN obs.ranOver
                             THEN Put(@, gen.SLUG, obs.ranOver[gen.SLUG]) ELSE @]
  /\ UNCHANGED <<kernelClock, tasks, now, fsVars, cycle, timer, input, output>>

\* Step 4: generateMetadata reads the clock for createdAt, reads it again for
\* updatedAt (the same tick or the next one) and writes metadata.json
GenerateMetadata ==
  /\ gen.pc = "metadata"
  /\ \E later \in {0, 1} :
       /\ now + 1 + later <= MaxClock
       /\ now' = now + 1 + later
       /\ LET created == ToISOString(now + 1)
              updated == ToISOString(now + 1 + later)
              m == BuildMetadata(gen, created, updated, Get(metaJson, gen.SLUG, NoMetadata))
          IN /\ metaJson' = Put(metaJson, gen.SLUG, m)
             /\ gen' = [gen EXCEPT !.pc = "pages", !.metadata = m]
             /\ obs' = [obs EXCEPT !.stampedAt = Put(@, gen.SLUG, updated)]
  /\ UNCHANGED <<kernelClock, tasks, manifestJson, raw, indexMdx, metaTs, appendixMdx,
                 changelogMdx, cycle, timer, input, output>>

\* Step 5: generateMDXPages builds and writes index.mdx, then _meta.ts, then
\* appendix.mdx: three writeFileSync calls, each of which may throw
WriteIndexMdx ==
  /\ gen.pc = "pages"
  /\ indexMdx' = Put(indexMdx, gen.SLUG, BuildIndex(gen, now))
  /\ gen' = [gen EXCEPT !.pc = "pagesNav"]
  /\ UNCHANGED <<kernelClock, tasks, now, metaJson, manifestJson, raw, metaTs, appendixMdx,
                 changelogMdx, cycle, timer, obs, input, output>>

WriteMetaTs ==
  /\ gen.pc = "pagesNav"
  /\ metaTs' = Put(metaTs, gen.SLUG, NavEntries(gen.classified))
  /\ gen' = [gen EXCEPT !.pc = "pagesAppendix"]
  /\ UNCHANGED <<kernelClock, tasks, now, metaJson, manifestJson, raw, indexMdx, appendixMdx,
                 changelogMdx, cycle, timer, obs, input, output>>

WriteAppendixMdx ==
  /\ gen.pc = "pagesAppendix"
  /\ appendixMdx' = Put(appendixMdx, gen.SLUG, BuildAppendix(gen, now))
  /\ gen' = [gen EXCEPT !.pc = "changelog"]
  /\ UNCHANGED <<kernelClock, tasks, now, metaJson, manifestJson, raw, indexMdx, metaTs,
                 changelogMdx, cycle, timer, obs, input, output>>

GenerateMDXPages ==
  \/ WriteIndexMdx
  \/ WriteMetaTs
  \/ WriteAppendixMdx

\* Step 6: generateChangelog writes changelog.mdx; the process then exits 0
GenerateChangelog ==
  /\ gen.pc = "changelog"
  /\ changelogMdx' = Put(changelogMdx, gen.SLUG, BuildChangelog(gen, now))
  /\ gen' = [gen EXCEPT !.pc = "done"]
  /\ obs' = [obs EXCEPT !.completedAt = Put(@, gen.SLUG, gen.metadata.updatedAt)]
  /\ UNCHANGED <<kernelClock, tasks, now, metaJson, manifestJson, raw, indexMdx, metaTs, appendixMdx,
                 cycle, timer, input, output>>

\* any step of the pipeline may throw (a failing mkdir or writeFileSync): the
\* process dies with what it has written so far left on disk
GeneratorThrows ==
  /\ gen.pc \in GenRunning
  /\ gen' = [gen EXCEPT !.pc = "failed"]
  /\ UNCHANGED <<kernelClock, tasks, now, fsVars, cycle, timer, obs, input, output>>

\* lines 233-239: the pipeline, in order
Pipeline ==
  \/ SetupDirectories
  \/ ScanDriveFolder
  \/ ClassifyFiles
  \/ GenerateMetadata
  \/ GenerateMDXPages
  \/ GenerateChangelog

(***************************************************************************)
(* The operator at the command line and the raw directory                  *)
(***************************************************************************)
\* at most MaxFiles entries in one raw directory
MaxFiles == 3

RemoveAt(seq, pos) == SubSeq(seq, 1, pos - 1) \o SubSeq(seq, pos + 1, Len(seq))

\* the command lines the operator may type: <<drive, slug, visibility>>, a bare
\* folder id or a folder URL, with or without --visibility, and one with an
\* empty --slug
GenCommandLines ==
  {<<<<"A","B">>, <<"M","y"," ","L","a","b","!">>, Undefined>>,
   <<<<"d","/","f","o","l","d","e","r","s","/","A","B","?","u">>, <<"M","y"," ","L","a","b","!">>, <<"p","u","b","l","i","c">>>>,
   <<<<"A","B">>, <<>>, Undefined>>}

\* the files the operator may export into raw/ (the scenario of the
\* specification's end-to-end property, and a second file of one category)
GenFileNames == {<<"E","x","e","c","u","t","i","v","e","-","S","u","m","m","a","r","y",".","p","d","f">>,
                 <<"F","i","n","a","n","c","i","a","l","-","M","o","d","e","l",".","x","l","s","x">>,
                 <<"r","a","n","d","o","m","-","n","o","t","e","s",".","t","x","t">>,
                 <<"R","e","v","e","n","u","e",".","c","s","v">>}

\* the words the operator's shell hands to node
UserArgv(drive, slug, vis) ==
  <<S_optDrive \o drive, S_optSlug \o slug>>
    \o (IF vis = Undefined THEN <<>> ELSE <<S_optVisibility \o vis>>)

\* node scripts/generate-project-docs.mjs --drive=... --slug=... [--visibility=...]
UserLaunch ==
  /\ cycle.pc = "off"
  /\ gen.pc \in {"none", "done", "failed"}
  /\ \E c \in GenCommandLines : gen' = Launch(UserArgv(c[1], c[2], c[3]))
  /\ UNCHANGED <<kernelClock, tasks, now, fsVars, cycle, timer, obs, input, output>>

\* a listing with one more entry, at its place in the order of the names
InsertEntry(listing, entry) ==
  LET before == {i \in DOMAIN listing : NameBefore(listing[i].name, entry.name)}
      k == Cardinality(before)
  IN SubSeq(listing, 1, k) \o <<entry>> \o SubSeq(listing, k + 1, Len(listing))

\* a file is written into an existing raw directory: a new entry or new content
\* for an old one. The kernel stamps its mtime from a clock coarser than
\* Date.now(): a value that may lie behind the time of writing (and so behind
\* a reading of Date.now() made before the write, in whatever process), but
\* never behind an mtime given before. raw[dir] is the directory as fs.readdirSync
\* lists it: the names ascending by code unit
WriteRaw(dir, name) ==
  /\ dir \in DOMAIN raw
  /\ now + 1 <= MaxClock
  /\ now' = now + 1
  /\ \E mtime \in kernelClock..(now + 1) :
       LET old == {i \in DOMAIN raw[dir] : raw[dir][i].name = name}
           entry == [name |-> name, mtime |-> mtime]
       IN /\ kernelClock' = mtime
          /\ IF old # {}
             THEN raw' = [raw EXCEPT ![dir] = [i \in DOMAIN @ |-> IF i \in old THEN entry ELSE @[i]]]
             ELSE /\ Len(raw[dir]) < MaxFiles
                  /\ raw' = [raw EXCEPT ![dir] = InsertEntry(@, entry)]
  /\ obs' = [obs EXCEPT !.dirtySinceDone = @ \cup {dir},
                        !.touchedSinceLog = @ \cup {dir}]
  /\ UNCHANGED <<tasks, metaJson, manifestJson, indexMdx, metaTs, appendixMdx,
                 changelogMdx, gen, cycle, timer, input, output>>

\* a file is deleted from a raw directory
RemoveRaw(dir, pos) ==
  /\ dir \in DOMAIN raw
  /\ pos \in DOMAIN raw[dir]
  /\ raw' = [raw EXCEPT ![dir] = RemoveAt(@, pos)]
  /\ UNCHANGED <<kernelClock, tasks, now, metaJson, manifestJson, indexMdx, metaTs, appendixMdx,
                 changelogMdx, gen, cycle, timer, obs, input, output>>

\* between two runs of the generator the operator changes the raw directory
OperatorAddsFile ==
  /\ gen.pc \in {"none", "done", "failed"}
  /\ \E dir \in DOMAIN raw, name \in GenFileNames :
       /\ name \notin Range(Names(raw[dir]))
       /\ WriteRaw(dir, name)

OperatorRemovesFile ==
  /\ gen.pc \in {"none", "done", "failed"}
  /\ \E dir \in DOMAIN raw : \E pos \in DOMAIN raw[dir] : RemoveRaw(dir, pos)

\* the observer's record:
\*   outcome          the result last logged for each project (ok / failed)
\*   completedAt      the updatedAt of the last generator run that exited 0
\*   stampedAt        the reading of the clock generateMetadata last took for
\*                    each project's updatedAt
\*   dirtySinceDone   projects with a raw file written since their last
\*                    successful sync was logged
\*   touchedSinceLog  projects with a raw file written since the watcher last
\*                    logged a result for them
\*   ranOver          the names in the raw directory when the last run of the
\*                    generator listed it, and ranBefore, when the run before did
\*   origin           slug, name, driveFolder and visibility of each project as
\*                    the operator's own run of the generator recorded them
\* and, for the cycle in progress (or the last one):
\*   listed           the projects getProjectsWithDrive returned
\*   atCheck          what held of each project when the loop reached it
\*   syncs            the number of syncProject calls per project
\*   logged           the result logged per project
\*   commitFailed     the projects whose git commit failed
\* and firstThrow, the number of the first cycle in which an execSync threw
\* (0: none has)
ObsInit ==
  [outcome |-> <<>>, completedAt |-> <<>>, stampedAt |-> <<>>,
   dirtySinceDone |-> {}, touchedSinceLog |-> {}, ranOver |-> <<>>, ranBefore |-> <<>>, origin |-> <<>>,
   listed |-> {}, atCheck |-> <<>>, syncs |-> <<>>, logged |-> <<>>,
   commitFailed |-> {}, firstThrow |-> 0]

WatcherOff ==
  /\ cycle = [pc |-> "off", projects |-> <<>>, idx |-> 0, active |-> 0, started |-> 0]
  /\ tasks = <<>>
  /\ timer = [armed |-> FALSE, due |-> FALSE]

FnIdle ==
  /\ input = <<>>
  /\ output = [stage |-> "none"]

\* the generator alone, the operator at the command line: an empty checkout,
\* one in which the operator has made the project's raw directory, or one in
\* which a first export already lies there
InitGen ==
  /\ now = 0
  /\ kernelClock = 0
  /\ metaJson = <<>>
  /\ manifestJson = <<>>
  /\ raw \in {<<>>,
              Put(<<>>, SLUG(<<"M","y"," ","L","a","b","!">>), <<>>),
              Put(<<>>, SLUG(<<"M","y"," ","L","a","b","!">>),
                  <<[name |-> <<"E","x","e","c","u","t","i","v","e","-","S","u","m","m","a","r","y",".","p","d","f">>, mtime |-> 0]>>)}
  /\ indexMdx = <<>>
  /\ metaTs = <<>>
  /\ appendixMdx = <<>>
  /\ changelogMdx = <<>>
  /\ gen = GenNone
  /\ obs = ObsInit
  /\ WatcherOff
  /\ FnIdle

NextGen ==
  \/ UserLaunch
  \/ Pipeline
  \/ OperatorAddsFile
  \/ OperatorRemovesFile

SpecGen == InitGen /\ [][NextGen]_vars

(***************************************************************************)
(* classifyFiles and the navigation manifest on their own                  *)
(***************************************************************************)
\* the longest directory listing handed to classifyFiles
FnMaxLen == 2

\* directory entries: names with keywords of two categories, keywords in
\* capitals, inside a word and in the extension, names without an extension,
\* and names whose page slugs coincide
FnFileNames ==
  {<<"E","x","e","c","-","F","i","n","a","n","c","i","a","l",".","p","d","f">>,
   <<"R","e","v","e","n","u","e","-","T","e","a","m",".","x","l","s","x">>,
   <<"o","r","g","-","r","o","a","d","m","a","p",".","m","d">>,
   <<"P","r","o","d","u","c","t","-","M","a","r","k","e","t",".","d","o","c","x">>,
   <<"c","o","m","p","e","t","i","t","o","r","-","t","e","r","m","s",".","t","x","t">>,
   <<"L","e","g","a","l","-","D","e","c","k",".","p","p","t","x">>,
   <<"p","i","t","c","h",".","p","n","g">>,
   <<"R","E","A","D","M","E">>,
   <<"d","e","t","e","r","m","i","n","e","d",".","c","s","v">>,
   <<"n","o","t","e","s",".","O","R","G">>,
   <<"n","o","t","e","s",".","m","d">>,
   <<"N","o","t","e","s",".","d","o","c","x">>,
   <<"i","n","d","e","x",".","m","d">>,
   <<"A","p","p","e","n","d","i","x",".","d","o","c">>,
   <<"v","1",".","2",".","m","d","x">>,
   <<"M","y"," "," ","P","l","a","n","!",".","m","d">>,
   <<"S","U","M","M","A","R","Y",".","P","D","F">>,
   <<".","m","d">>}

\* the listings fs.readdirSync can return: one to FnMaxLen distinct entries,
\* ascending by code unit
FnListings ==
  {l \in UNION {[1..n -> FnFileNames] : n \in 1..FnMaxLen} :
     \A i, j \in DOMAIN l : i < j => NameBefore(l[i], l[j])}

InitFn ==
  /\ now = 0
  /\ kernelClock = 0
  /\ metaJson = <<>>
  /\ manifestJson = <<>>
  /\ raw = <<>>
  /\ indexMdx = <<>>
  /\ metaTs = <<>>
  /\ appendixMdx = <<>>
  /\ changelogMdx = <<>>
  /\ gen = GenNone
  /\ obs = ObsInit
  /\ WatcherOff
  /\ input \in FnListings
  /\ output = [stage |-> "none"]

\* files.map(file => ...) of classifyFiles over the listing
FnClassify ==
  /\ output.stage = "none"
  /\ Len(input) > 0
  /\ output' = [stage |-> "classified", classified |-> ClassifyListing(input)]
  /\ UNCHANGED <<kernelClock, tasks, now, fsVars, gen, cycle, timer, obs, input>>

\* the entries generateMDXPages writes into _meta.ts for that classification
FnNavigation ==
  /\ output.stage = "classified"
  /\ output' = [stage |-> "nav", classified |-> output.classified,
                nav |-> NavEntries(output.classified)]
  /\ UNCHANGED <<kernelClock, tasks, now, fsVars, gen, cycle, timer, obs, input>>

NextFn ==
  \/ FnClassify
  \/ FnNavigation

SpecFn == InitFn /\ [][NextFn]_vars

(***************************************************************************)
(* The watcher (drive-sync.mjs)                                            *)
(***************************************************************************)
\* the timer fires at most MaxCycles - 1 times after the first cycle
MaxCycles == 2

\* fs.readdirSync: the entries, ascending by code unit
ListDir(S) ==
  IF S = {} THEN <<>>
  ELSE CHOOSE seq \in [1..Cardinality(S) -> S] :
         /\ Range(seq) = S
         /\ \A i, j \in DOMAIN seq : i < j => NameBefore(seq[i], seq[j])

ProjectDirs == (DOMAIN raw) \cup (DOMAIN metaJson) \cup (DOMAIN manifestJson)

\* { slug: dir, ...meta }: the fields of metadata.json, over slug: dir
ProjectOf(dir) ==
  IF "slug" \in DOMAIN metaJson[dir]
  THEN metaJson[dir]
  ELSE [f \in (DOMAIN metaJson[dir]) \cup {"slug"} |->
          IF f = "slug" THEN dir ELSE metaJson[dir][f]]

\* Array.prototype.filter for the project list
RECURSIVE SelectWithDrive(_)
SelectWithDrive(ps) ==
  IF Len(ps) = 0 THEN <<>>
  ELSE IF ~Falsy(ps[1].driveFolder)
       THEN <<ps[1]>> \o SelectWithDrive(Tail(ps))
       ELSE SelectWithDrive(Tail(ps))

getProjectsWithDrive ==
  LET dirs == ListDir({d \in ProjectDirs : d \in DOMAIN metaJson})
  IN SelectWithDrive([i \in DOMAIN dirs |-> ProjectOf(dirs[i])])

\* checkForChanges with >= for >
checkForChanges_orEqual(project) ==
  LET lastSync == GetTime(project.updatedAt)
  IN IF project.slug \notin DOMAIN raw THEN FALSE
     ELSE \E i \in DOMAIN raw[project.slug] :
            raw[project.slug][i].mtime >= lastSync * SubMs

\* checkForChanges: some entry of the raw directory has mtimeMs > lastSync
checkForChanges(project) ==
  LET lastSync == GetTime(project.updatedAt)
  IN IF project.slug \notin DOMAIN raw THEN FALSE
     ELSE \E i \in DOMAIN raw[project.slug] :
            MtimeAfter(raw[project.slug][i].mtime, lastSync)

\* the exit status of `git add -A && git commit -m ... || true`, given the
\* status of `git add -A && git commit -m ...`
CommitStatus(gitStatus) == IF gitStatus = 0 THEN gitStatus ELSE 0

\* an awaited call of syncProject that settled only on the exit of its child
\* (exec for execSync): the continuation would be run for that event
AwaitSettles_onChildExit(call) ==
  IF call = "syncProject" THEN "macrotask" ELSE "microtask"

\* the awaits of lines 78 and 80 are given promises that are settled when the
\* call returns: checkForChanges and syncProject hold no await of their own,
\* and execSync returns only once the child has exited. The continuation is
\* then a promise job, a microtask
AwaitSettles(call) == "microtask"

\* runSyncCycle suspended at the await of call, and what the call returned
Continuation(c, call, changed) ==
  [kind |-> AwaitSettles(call), call |-> call, projects |-> c.projects,
   idx |-> c.idx, changed |-> changed]

\* the frame has left the call stack
Parked(c) == [c EXCEPT !.pc = "idle", !.projects = <<>>, !.idx = 0]

\* syncProject returns and the await of line 80 suspends runSyncCycle
AfterReturn(c, q, t) ==
  [cycle |-> Parked(c), tasks |-> Append(q, Continuation(c, "syncProject", FALSE)),
   timer |-> t]

\* a watcher whose exception leaves syncProject and runSyncCycle: the
\* rejection is unhandled and the process ends, its timer with it
AfterThrow_uncaught(c, q, t) ==
  [cycle |-> [c EXCEPT !.pc = "aborted"], tasks |-> <<>>,
   timer |-> [armed |-> FALSE, due |-> FALSE]]

\* the catch block of syncProject: log, and return as after a success
AfterThrow(c, q, t) == AfterReturn(c, q, t)

\* the promise jobs queued
Microtasks(q) == {i \in DOMAIN q : q[i].kind = "microtask"}

\* the tasks the event loop may run next: the oldest promise job ahead of
\* everything else, and any other task only when no promise job is queued
Runnable(q) ==
  IF Microtasks(q) # {}
  THEN {CHOOSE i \in Microtasks(q) : \A j \in Microtasks(q) : i <= j}
  ELSE DOMAIN q

\* the event loop calls a timer's callback only with the call stack empty and
\* the promise jobs drained
CanRunTimerCallback(c, q) == c.pc = "idle" /\ Microtasks(q) = {}

\* the first lines of runSyncCycle
BeginCycle ==
  /\ cycle' = [pc |-> "loop", projects |-> getProjectsWithDrive, idx |-> 1,
               active |-> cycle.active + 1, started |-> cycle.started + 1]
  /\ obs' = [obs EXCEPT
               !.listed = {getProjectsWithDrive[i].slug : i \in DOMAIN getProjectsWithDrive},
               !.atCheck = <<>>, !.syncs = <<>>, !.logged = <<>>,
               !.commitFailed = {}]

\* line 92: the script calls runSyncCycle
Boot ==
  /\ cycle.pc = "off"
  /\ gen.pc = "none"
  /\ BeginCycle
  /\ UNCHANGED <<kernelClock, tasks, timer, now, fsVars, gen, input, output>>

\* line 93: the call of line 92 has returned (at its first await, or at its
\* end); the script arms the timer and ends
SetInterval ==
  /\ cycle.pc = "idle"
  /\ ~timer.armed
  /\ timer' = [armed |-> TRUE, due |-> FALSE]
  /\ UNCHANGED <<kernelClock, tasks, now, fsVars, gen, cycle, obs, input, output>>

\* CHECK_INTERVAL has passed since the timer was armed or last fired
TimerExpires ==
  /\ timer.armed
  /\ ~timer.due
  /\ cycle.started < MaxCycles
  /\ timer' = [timer EXCEPT !.due = TRUE]
  /\ UNCHANGED <<kernelClock, tasks, now, fsVars, gen, cycle, obs, input, output>>

\* the event loop calls runSyncCycle for the expired timer
TimerCallback ==
  /\ timer.due
  /\ CanRunTimerCallback(cycle, tasks)
  /\ BeginCycle
  /\ timer' = [timer EXCEPT !.due = FALSE]
  /\ UNCHANGED <<kernelClock, tasks, now, fsVars, gen, input, output>>

\* what a claim may say of a project when the loop reaches it, read from the
\* disk and the observer's record (not from the watcher's copy of the project)
RawNewerThan(dir, ms) ==
  /\ dir \in DOMAIN raw
  /\ \E i \in DOMAIN raw[dir] : raw[dir][i].mtime > ms * SubMs

\* some raw file has an mtime in or after the millisecond ms
RawAtOrAfter(dir, ms) ==
  /\ dir \in DOMAIN raw
  /\ \E i \in DOMAIN raw[dir] : raw[dir][i].mtime >= ms * SubMs

Observed(dir, changed) ==
  [newer |-> RawNewerThan(dir, GetTime(metaJson[dir].updatedAt)),
   entries |-> Len(Get(raw, dir, <<>>)),
   newerEntries |-> Cardinality({i \in DOMAIN Get(raw, dir, <<>>) :
                      raw[dir][i].mtime > GetTime(metaJson[dir].updatedAt) * SubMs}),
   newerThanCompleted |-> RawNewerThan(dir, GetTime(obs.completedAt[dir])),
   previous |-> Get(obs.outcome, dir, "none"),
   dirtySinceStamp |-> RawAtOrAfter(dir, GetTime(obs.stampedAt[dir])),
   dirtySinceDone |-> dir \in obs.dirtySinceDone,
   touchedSinceLog |-> dir \in obs.touchedSinceLog,
   synced |-> changed]

\* the shell runs the command of syncProject: the generator starts, or the
\* shell rejects the command line
Exec(cmd) ==
  LET sh == ShellWords(cmd)
  IN IF sh.ok THEN Launch(ArgvOf(sh.words)) ELSE [GenNone EXCEPT !.pc = "failed"]

\* line 78: checkForChanges runs to its end, and the await suspends
\* runSyncCycle with what it returned
CheckProject ==
  /\ cycle.pc = "loop"
  /\ cycle.idx <= Len(cycle.projects)
  /\ LET project == cycle.projects[cycle.idx]
         changed == checkForChanges(project)
     IN /\ obs' = [obs EXCEPT
                     !.atCheck = Put(@, project.slug, Observed(project.slug, changed))]
        /\ tasks' = Append(tasks, Continuation(cycle, "checkForChanges", changed))
  /\ cycle' = Parked(cycle)
  /\ UNCHANGED <<kernelClock, now, fsVars, gen, timer, input, output>>

\* the event loop, the call stack empty and the script ended, resumes a
\* suspended runSyncCycle. After line 78: the call of syncProject up to its
\* first execSync, or the "no changes" line and the next turn of the loop;
\* after line 80: the next turn of the loop
RunTask ==
  /\ cycle.pc = "idle"
  /\ timer.armed
  /\ \E i \in Runnable(tasks) :
       LET t == tasks[i]
           project == t.projects[t.idx]
           sync == t.call = "checkForChanges" /\ t.changed
       IN /\ tasks' = RemoveAt(tasks, i)
          /\ cycle' = IF sync
                      THEN [cycle EXCEPT !.pc = "generating", !.projects = t.projects,
                                         !.idx = t.idx]
                      ELSE [cycle EXCEPT !.pc = "loop", !.projects = t.projects,
                                         !.idx = t.idx + 1]
          /\ gen' = IF sync THEN Exec(SyncCommand(project)) ELSE gen
          /\ obs' = IF sync
                    THEN [obs EXCEPT !.syncs = Put(@, project.slug, Get(@, project.slug, 0) + 1)]
                    ELSE obs
  /\ UNCHANGED <<kernelClock, now, fsVars, timer, input, output>>

\* the generator has exited 0: the commit command runs, then the success line
\* (or, were the command to fail, the catch block), and syncProject returns
CommitStep ==
  /\ cycle.pc = "generating"
  /\ gen.pc = "done"
  /\ \E gitStatus \in {0, 1} :
       LET slug == cycle.projects[cycle.idx].slug
           committed == gitStatus = 0
           ok == CommitStatus(gitStatus) = 0
           result == IF ok THEN "ok" ELSE "failed"
           after == IF ok THEN AfterReturn(cycle, tasks, timer)
                    ELSE AfterThrow(cycle, tasks, timer)
       IN /\ cycle' = after.cycle
          /\ tasks' = after.tasks
          /\ timer' = after.timer
          /\ obs' = [obs EXCEPT
                       !.outcome = Put(@, slug, result),
                       !.logged = Put(@, slug, result),
                       !.commitFailed = IF committed THEN @ ELSE @ \cup {slug},
                       !.dirtySinceDone = IF ok THEN @ \ {slug} ELSE @,
                       !.touchedSinceLog = @ \ {slug},
                       !.firstThrow = IF ok \/ @ > 0 THEN @ ELSE cycle.started]
  /\ gen' = GenNone
  /\ UNCHANGED <<kernelClock, now, fsVars, input, output>>

\* the generator has exited non-zero (or the shell did): execSync throws
SyncCatch ==
  /\ cycle.pc = "generating"
  /\ gen.pc = "failed"
  /\ LET slug == cycle.projects[cycle.idx].slug
         after == AfterThrow(cycle, tasks, timer)
     IN /\ obs' = [obs EXCEPT !.outcome = Put(@, slug, "failed"),
                              !.logged = Put(@, slug, "failed"),
                              !.touchedSinceLog = @ \ {slug},
                              !.firstThrow = IF @ > 0 THEN @ ELSE cycle.started]
        /\ cycle' = after.cycle
        /\ tasks' = after.tasks
        /\ timer' = after.timer
  /\ gen' = GenNone
  /\ UNCHANGED <<kernelClock, now, fsVars, input, output>>

\* the for loop is exhausted: runSyncCycle returns
EndCycle ==
  /\ cycle.pc = "loop"
  /\ cycle.idx > Len(cycle.projects)
  /\ cycle' = [cycle EXCEPT !.pc = "idle", !.projects = <<>>, !.idx = 0,
                            !.active = @ - 1]
  /\ UNCHANGED <<kernelClock, tasks, now, fsVars, gen, timer, obs, input, output>>

\* the files that appear in (or are rewritten in) a raw directory while the
\* watcher runs
WatchFileNames == {<<"n","o","t","e","s",".","m","d">>}

\* an export lands in a raw directory, at any moment
ExportArrives ==
  \E dir \in DOMAIN raw, name \in WatchFileNames : WriteRaw(dir, name)

\* the checkout the watcher starts in: every project was generated once by
\* the operator (at time 0), from these command lines; the first project over
\* one export that lay in its raw directory, the second over none
SetupA == <<<<"d","/","f","o","l","d","e","r","s","/","A","B","?","u">>, <<"M","y"," ","L","a","b","!">>, Undefined>>
SetupB == <<<<"C"," ","D">>, <<"x","2">>, <<"\"","p","u","b","l","i","c","\"">>>>
SetupC == <<<<"d","/","f","o","l","d","e","r","s","/","?","u">>, <<"x","2">>, Undefined>>
SetupD == <<<<"A","B">>, <<"x","2">>, <<"p","u","b","l","i","c">>>>

FirstExport == <<[name |-> <<"P","l","a","n",".","p","d","f">>, mtime |-> 0]>>

\* the generator process at the end of a first run over the raw directory
\* listing
FirstRun(c, listing) ==
  LET g == [Launch(UserArgv(c[1], c[2], c[3])) EXCEPT
              !.classified = ClassifyListing(Names(listing))]
  IN [g EXCEPT !.pc = "done",
               !.metadata = BuildMetadata(g, ToISOString(0), ToISOString(0), NoMetadata)]

\* what identifies a project in its metadata.json
Identity(m) ==
  [slug |-> m.slug, name |-> m.name, driveFolder |-> m.driveFolder,
   visibility |-> m.visibility]

\* the two files of the two projects
Both(a, b, fa, fb) == Put(Put(<<>>, a.SLUG, fa), b.SLUG, fb)

\* the placeholder manifest of a first run
FirstManifest(g) ==
  [folderId |-> g.DRIVE_ID, scannedAt |-> ToISOString(0), files |-> <<>>]

\* the disk after the first runs a (over FirstExport) and b; rawMissing: the
\* empty raw directory of b is not in the checkout
Checkout(a, b, rawMissing) ==
  /\ metaJson = Both(a, b, a.metadata, b.metadata)
  /\ manifestJson = Both(a, b, FirstManifest(a), FirstManifest(b))
  /\ raw = IF rawMissing THEN Put(<<>>, a.SLUG, FirstExport)
           ELSE Both(a, b, FirstExport, <<>>)
  /\ indexMdx = Both(a, b, BuildIndex(a, 0), BuildIndex(b, 0))
  /\ metaTs = Both(a, b, NavEntries(a.classified), NavEntries(b.classified))
  /\ appendixMdx = Both(a, b, BuildAppendix(a, 0), BuildAppendix(b, 0))
  /\ changelogMdx = Both(a, b, BuildChangelog(a, 0), BuildChangelog(b, 0))
  /\ obs = [ObsInit EXCEPT
              !.completedAt = Both(a, b, a.metadata.updatedAt, b.metadata.updatedAt),
              !.stampedAt = Both(a, b, a.metadata.updatedAt, b.metadata.updatedAt),
              !.ranOver = Both(a, b, Names(FirstExport), <<>>),
              !.origin = Both(a, b, Identity(a.metadata), Identity(b.metadata))]

\* Init of the watcher: project A and one of B (a quoted visibility), C (a URL
\* with an empty folder id) and D (whose empty raw directory is not in the
\* checkout)
Init ==
  /\ now = 0
  /\ kernelClock = 0
  /\ \E c \in {SetupB, SetupC, SetupD} :
       Checkout(FirstRun(SetupA, FirstExport), FirstRun(c, <<>>), c = SetupD)
  /\ gen = GenNone
  /\ WatcherOff
  /\ FnIdle

Next ==
  \/ Boot
  \/ SetInterval
  \/ TimerExpires
  \/ TimerCallback
  \/ CheckProject
  \/ RunTask
  \/ Pipeline
  \/ GeneratorThrows
  \/ CommitStep
  \/ SyncCatch
  \/ EndCycle
  \/ ExportArrives

Spec == Init /\ [][Next]_vars

(***************************************************************************)
(* Properties                                                              *)
(***************************************************************************)
\* the projects with a metadata.json that declares a driveFolder
DeclaringDrive == {d \in DOMAIN metaJson : metaJson[d].driveFolder # <<>>}

\* the project is between its checkForChanges and what the loop does next
Awaited(s) ==
  \E i \in DOMAIN tasks :
    tasks[i].call = "checkForChanges" /\ tasks[i].projects[tasks[i].idx].slug = s

\* the project's syncProject is blocked in an execSync
Syncing(s) == cycle.pc = "generating" /\ cycle.projects[cycle.idx].slug = s

\* no activation of runSyncCycle is left, on the stack or suspended
CycleOver == cycle.started > 0 /\ cycle.active = 0

\* C1: in one sync cycle every project whose metadata.json declares a
\* driveFolder is checked; syncProject is called exactly once for it when some
\* raw file's mtime was strictly later than its recorded updatedAt, and not at
\* all when none was (a missing or empty raw directory included).
C1_ChangeDetection ==
  /\ \A s \in DOMAIN obs.atCheck :
       ~Awaited(s) => Get(obs.syncs, s, 0) = IF obs.atCheck[s].newer THEN 1 ELSE 0
  /\ \A s \in DOMAIN obs.atCheck : Get(obs.syncs, s, 0) <= 1
  /\ DOMAIN obs.syncs \subseteq DOMAIN obs.atCheck
  /\ CycleOver => DOMAIN obs.atCheck = DeclaringDrive

\* a finished cycle that synced once a project with two raw files, one of them
\* newer than updatedAt and one not, and left alone another whose raw
\* directory does not exist
C1_Witness ==
  /\ CycleOver
  /\ \E s, t \in DOMAIN obs.atCheck :
       /\ obs.atCheck[s].entries = 2
       /\ obs.atCheck[s].newerEntries = 1
       /\ obs.syncs[s] = 1
       /\ t \notin DOMAIN raw
       /\ t \notin DOMAIN obs.syncs

\* C2: a generator run that throws is caught and logged; the cycle goes on to
\* check every project it listed (syncing those that changed); the watcher
\* lives on: its timer stays armed, the cycle in progress is running or queued
\* to resume, and a tick due once it is over can start the next one; a
\* failing commit is logged as a success.
C2_FailSoft ==
  /\ cycle.pc # "aborted"
  /\ obs.firstThrow > 0 =>
       /\ timer.armed
       /\ cycle.active = 1 => (cycle.pc \in {"loop", "generating"} \/ tasks # <<>>)
       /\ (timer.due /\ cycle.active = 0) => CanRunTimerCallback(cycle, tasks)
  /\ CycleOver => obs.listed \subseteq DOMAIN obs.atCheck
  /\ cycle.pc \in {"loop", "generating"} =>
       \A i \in 1..Len(cycle.projects) :
         i < cycle.idx => cycle.projects[i].slug \in DOMAIN obs.atCheck
  /\ \A k \in DOMAIN tasks : \A i \in 1..tasks[k].idx :
       tasks[k].projects[i].slug \in DOMAIN obs.atCheck
  /\ \A s \in DOMAIN obs.atCheck :
       (obs.atCheck[s].synced /\ ~Syncing(s) /\ ~Awaited(s)) => s \in DOMAIN obs.logged
  /\ \A s \in obs.commitFailed : obs.logged[s] = "ok"

\* the second cycle of a watcher in whose first cycle a sync threw: its loop
\* is exhausted, the first project's sync threw, the second project was then
\* synced, and its commit failed
C2_Witness ==
  /\ cycle.started = 2
  /\ obs.firstThrow = 1
  /\ cycle.pc = "loop"
  /\ Len(cycle.projects) = 2
  /\ cycle.idx = 3
  /\ Get(obs.logged, cycle.projects[1].slug, "none") = "failed"
  /\ Get(obs.logged, cycle.projects[2].slug, "none") = "ok"
  /\ cycle.projects[2].slug \in obs.commitFailed

\* C3: a project whose last sync failed, that has a raw file newer than its
\* last completed sync and whose raw files were not touched since the failure,
\* is synced again when the loop next reaches it.
C3_NaturalRetry ==
  \A s \in DOMAIN obs.atCheck :
    (/\ obs.atCheck[s].previous = "failed"
     /\ obs.atCheck[s].newerThanCompleted
     /\ ~obs.atCheck[s].touchedSinceLog)
      => obs.atCheck[s].synced

\* the claim's priority table
CategoryRules ==
  <<[category |-> "overview", keywords |-> {<<"e","x","e","c">>, <<"s","u","m","m","a","r","y">>}],
    [category |-> "financials", keywords |-> {<<"f","i","n","a","n","c","i","a","l">>, <<"r","e","v","e","n","u","e">>}],
    [category |-> "team", keywords |-> {<<"t","e","a","m">>, <<"o","r","g">>}],
    [category |-> "product", keywords |-> {<<"p","r","o","d","u","c","t">>, <<"r","o","a","d","m","a","p">>}],
    [category |-> "market", keywords |-> {<<"m","a","r","k","e","t">>, <<"c","o","m","p","e","t","i","t","o","r">>}],
    [category |-> "legal", keywords |-> {<<"l","e","g","a","l">>, <<"t","e","r","m">>}],
    [category |-> "pitch", keywords |-> {<<"d","e","c","k">>, <<"p","i","t","c","h">>}]>>

\* the category of the earliest rule with a keyword inside the lowercased
\* name, appendix when there is none
FirstMatch(nameLower) ==
  LET hits == {r \in DOMAIN CategoryRules :
                 \E k \in CategoryRules[r].keywords : includes(nameLower, k)}
  IN IF hits = {} THEN "appendix"
     ELSE CategoryRules[CHOOSE r \in hits : \A q \in hits : r <= q].category

\* C4: the category classifyFiles gives a file is that of the first rule, in
\* the order overview, financials, team, product, market, legal, pitch, with a
\* keyword that is a substring of the lowercased filename, and appendix when
\* no rule matches.
C4_FirstMatchWins ==
  output.stage # "none" =>
    /\ Len(output.classified) = Len(input)
    /\ \A i \in DOMAIN input :
         /\ output.classified[i].file = input[i]
         /\ output.classified[i].category = FirstMatch(toLowerCase(input[i]))

\* a classified file whose name holds both 'exec' and 'financial': overview
C4_Witness ==
  /\ output.stage = "classified"
  /\ \E i \in DOMAIN input :
       /\ includes(toLowerCase(input[i]), <<"e","x","e","c">>)
       /\ includes(toLowerCase(input[i]), <<"f","i","n","a","n","c","i","a","l">>)
       /\ output.classified[i].category = "overview"

\* C5: when a run of the generator has finished, the rows of index.mdx and of
\* appendix.mdx and the entries of _meta.ts are those of the raw files the run
\* listed and of nothing else, whatever earlier runs had written.
C5_PureFunctionOfRaw ==
  gen.pc = "done" =>
    LET d == gen.SLUG
        cs == ClassifyListing(obs.ranOver[d])
    IN /\ indexMdx[d].rows = IndexRows(cs)
       /\ appendixMdx[d].rows = AppendixRows(d, cs)
       /\ metaTs[d] = NavEntries(cs)

\* a finished run over a non-empty raw directory from which a file listed by
\* the run before has been removed
C5_Witness ==
  /\ gen.pc = "done"
  /\ gen.SLUG \in DOMAIN obs.ranBefore
  /\ obs.ranOver[gen.SLUG] # <<>>
  /\ \E n \in Range(obs.ranBefore[gen.SLUG]) : n \notin Range(obs.ranOver[gen.SLUG])

\* the position at which x first occurs in xs
FirstSeenAt(xs, x) == CHOOSE i \in DOMAIN xs : xs[i] = x /\ \A j \in 1..(i - 1) : xs[j] # x

\* C6: when a run of the generator has finished, metadata.json has fileCount
\* equal to the number of raw entries and categories equal to the distinct
\* categories of the files, without duplicates and in first-seen order; the
\* index and the appendix tables have one row per file, in file order, and the
\* appendix row links to /projects/<slug>/assets/<filename>.
C6_CountsAndCategories ==
  gen.pc = "done" =>
    LET d == gen.SLUG
        files == obs.ranOver[d]
        cats == [i \in DOMAIN files |-> ClassifyFile(files[i]).category]
        m == metaJson[d]
    IN /\ m.fileCount = Len(files)
       /\ Range(m.categories) = Range(cats)
       /\ \A i, j \in DOMAIN m.categories :
            i < j => FirstSeenAt(cats, m.categories[i]) < FirstSeenAt(cats, m.categories[j])
       /\ Len(indexMdx[d].rows) = m.fileCount
       /\ Len(appendixMdx[d].rows) = m.fileCount
       /\ \A i \in DOMAIN files :
            /\ indexMdx[d].rows[i][1] = files[i]
            /\ appendixMdx[d].rows[i][1] = files[i]
            /\ appendixMdx[d].rows[i][4] =
                 <<"/","p","r","o","j","e","c","t","s","/">> \o d
                   \o <<"/","a","s","s","e","t","s","/">> \o files[i]

\* the end-to-end scenario: a finished run over Executive-Summary.pdf,
\* Financial-Model.xlsx and random-notes.txt
C6_Witness ==
  /\ gen.pc = "done"
  /\ obs.ranOver[gen.SLUG] = <<<<"E","x","e","c","u","t","i","v","e","-","S","u","m","m","a","r","y",".","p","d","f">>, <<"F","i","n","a","n","c","i","a","l","-","M","o","d","e","l",".","x","l","s","x">>, <<"r","a","n","d","o","m","-","n","o","t","e","s",".","t","x","t">>>>
  /\ metaJson[gen.SLUG].fileCount = 3
  /\ metaJson[gen.SLUG].categories = <<"overview", "financials", "appendix">>
  /\ Len(appendixMdx[gen.SLUG].rows) = 3

\* C7: the entries of _meta.ts are 'index' first, 'appendix' last and between
\* them one entry per markdown or document file, in file order, keyed by the
\* normalised filename; the keys are pairwise distinct (so no file's key is
\* 'index' or 'appendix') and the mapping has two entries more than there are
\* such files.
C7_NavManifest ==
  output.stage = "nav" =>
    LET nav == output.nav
        docs == {i \in DOMAIN input : output.classified[i].type \in {"markdown", "document"}}
        keys == [i \in DOMAIN nav |-> nav[i][1]]
    IN /\ Len(nav) = Cardinality(docs) + 2
       /\ nav[1] = <<<<"i","n","d","e","x">>, <<"O","v","e","r","v","i","e","w">>>>
       /\ nav[Len(nav)] = <<<<"a","p","p","e","n","d","i","x">>, <<"D","o","w","n","l","o","a","d","s"," ","&"," ","A","p","p","e","n","d","i","x">>>>
       /\ \A i, j \in DOMAIN nav : i # j => keys[i] # keys[j]
       /\ Cardinality(Range(keys)) = Cardinality(docs) + 2

\* C8 as claimed: a timer tick that falls due while a cycle is running its
\* generator can start the next cycle at once.
C8_CyclesOverlap ==
  (timer.due /\ cycle.pc = "generating") => ENABLED TimerCallback

\* C8: two cycles of one watcher are never active together; a tick that falls
\* due while a cycle is running starts its cycle only after that one returned.
C8_NoOverlap ==
  /\ cycle.active <= 1
  /\ cycle.active = 1 => ~ENABLED TimerCallback

\* the tick has fallen due while the generator of a sync is still running
C8_Witness ==
  /\ timer.due
  /\ cycle.pc = "generating"
  /\ gen.pc \in GenRunning

\* C9 as claimed: a project whose last sync succeeded and whose raw files were
\* not written since that sync completed is not synced again.
C9_QuiescentAfterSync ==
  \A s \in DOMAIN obs.atCheck :
    (obs.atCheck[s].previous = "ok" /\ ~obs.atCheck[s].dirtySinceDone)
      => ~obs.atCheck[s].synced

\* C9: a project whose last sync succeeded and none of whose raw files has an
\* mtime at or after the millisecond in which that sync stamped updatedAt is
\* not synced again.
C9_QuiescentAfterStamp ==
  \A s \in DOMAIN obs.atCheck :
    (obs.atCheck[s].previous = "ok" /\ ~obs.atCheck[s].dirtySinceStamp)
      => ~obs.atCheck[s].synced

\* a later cycle finds a successfully synced project unchanged
C9_Witness ==
  /\ cycle.started = 2
  /\ \E s \in DOMAIN obs.atCheck :
       /\ obs.atCheck[s].previous = "ok"
       /\ ~obs.atCheck[s].dirtySinceStamp
       /\ ~obs.atCheck[s].synced
       /\ s \in DOMAIN raw
       /\ raw[s] # <<>>

\* C10: the metadata.json files are those of the projects the operator
\* generated, and each still records the slug, name, driveFolder and
\* visibility it was generated with.
C10_IdentityPreserved ==
  /\ DOMAIN metaJson = DOMAIN obs.origin
  /\ \A d \in DOMAIN metaJson : Identity(metaJson[d]) = obs.origin[d]

=============================================================================
